---- MODULE Spec2Model ----
(***************************************************************************)
(* A model of combined_scraper.py: sitemap discovery (get_sitemap_urls),   *)
(* recursive sitemap expansion (parse_sitemap), the URL -> file name       *)
(* mapping (get_file_path), the per-page capture with in-page inlining     *)
(* (save_page_with_inlining) and the orchestration in main.                *)
(*                                                                         *)
(* Strings are sequences of tokens.  A token is either one of the          *)
(* characters the code inspects ("/", ".", ":", "?", "#", ";", " ") or a   *)
(* run of characters it never inspects ("https", "example", "about").      *)
(***************************************************************************)
EXTENDS Integers, Sequences, FiniteSets, TLC

VARIABLES
    pc,               \* position of main (or of the function under test)
    web,              \* the site: URL -> what a GET of it answers
    main_url,         \* main: the URL typed in, stripped
    max_pages,        \* main: the page cap
    output_folder,    \* main: output_folder / get_file_path: its argument
    sitemap_urls,     \* main: what get_sitemap_urls returned
    sm_idx,           \* main: position of "for sitemap in sitemap_urls"
    page_urls,        \* main: what the last parse_sitemap call returned
    all_page_urls,    \* main: the concatenation of the parse results
    unique_page_urls, \* main: the deduplicated (then capped) list
    total_found,      \* main: len(unique_page_urls) before the cap
    browser,          \* the browser session: none / open / closed / terminated
    launches,         \* number of sessions launched in this run
    idx,              \* main: position of "for url in unique_page_urls"
    attempted,        \* the URLs save_page_with_inlining was called with
    open_pages,       \* positions of the list whose page is open
    files,            \* the file paths written, in order
    sp,               \* position inside save_page_with_inlining
    url,              \* save_page_with_inlining / get_file_path: url
    file_path,        \* save_page_with_inlining: file_path
    dom,              \* the page's document: its elements in document order
    orig_dom,         \* the document as navigation left it
    outcome,          \* per element: how its inlining fetch ended
    js,               \* position of the in-page script
    js_idx,           \* the element the in-page script is working on
    pending,          \* an inlining fetch has started and not yet settled
    content           \* save_page_with_inlining: content

mainVars == << main_url, max_pages, sitemap_urls, sm_idx, page_urls,
               all_page_urls, unique_page_urls, total_found >>
sessionVars == << browser, launches, idx, attempted, open_pages, files >>
pageVars == << sp, dom, orig_dom, outcome, js, js_idx, pending, content >>

vars == << pc, web, output_folder, url, file_path, mainVars, sessionVars, pageVars >>

----------------------------------------------------------------------------
(* String primitives of Python used by the code.                           *)

Min(a, b) == IF a <= b THEN a ELSE b
Max(a, b) == IF a >= b THEN a ELSE b

\* The sequences over alpha of length at most n.
SeqsUpTo(alpha, n) == UNION { [1..k -> alpha] : k \in 0..n }

\* str.find over a set of characters, 1-based; Len(s) + 1 when none occurs.
FirstIn(s, chars) ==
    IF \E i \in DOMAIN s : s[i] \in chars
    THEN CHOOSE i \in DOMAIN s :
             s[i] \in chars /\ \A j \in 1..(i - 1) : s[j] \notin chars
    ELSE Len(s) + 1

\* str.rfind(c), 1-based; 0 when c does not occur.
RFind(s, c) ==
    IF \E i \in DOMAIN s : s[i] = c
    THEN CHOOSE i \in DOMAIN s :
             s[i] = c /\ \A j \in (i + 1)..Len(s) : s[j] # c
    ELSE 0

\* str.replace(old, new) for one-character old and new.
Replace(s, old, new) ==
    IF s = << >> THEN << >>
    ELSE [i \in 1..Len(s) |-> IF s[i] = old THEN new ELSE s[i]]

\* str.endswith(c)
EndsWith(s, c) == s # << >> /\ s[Len(s)] = c

\* str.lstrip(c): every leading c is removed.
RECURSIVE LStrip(_, _)
LStrip(s, c) ==
    IF s # << >> /\ s[1] = c THEN LStrip(Tail(s), c) ELSE s

\* str.rstrip(c)
RECURSIVE RStrip(_, _)
RStrip(s, c) ==
    IF s # << >> /\ s[Len(s)] = c THEN RStrip(SubSeq(s, 1, Len(s) - 1), c) ELSE s

\* str.strip(): leading and trailing whitespace removed.
Strip(s) == RStrip(LStrip(s, " "), " ")

\* os.path.splitext(p)[1]: the extension starts at the last "." of the last
\* path segment, unless only "." characters precede it in that segment.
SplitExt(p) ==
    LET sepIndex == RFind(p, "/")
        dotIndex == RFind(p, ".")
    IN  IF dotIndex > sepIndex
           /\ \E k \in (sepIndex + 1)..(dotIndex - 1) : p[k] # "."
        THEN SubSeq(p, dotIndex, Len(p))
        ELSE << >>

\* os.path.join(a, b) on POSIX.
OsPathJoin(a, b) ==
    IF b # << >> /\ b[1] = "/" THEN b
    ELSE IF a = << >> \/ a[Len(a)] = "/" THEN a \o b
    ELSE a \o << "/" >> \o b

\* urlparse: the position of the ":" that ends the scheme, 0 when the URL
\* has no scheme.
SchemeEnd(u) ==
    LET colon == FirstIn(u, {":"})
    IN  IF /\ colon > 1
           /\ colon <= Len(u)
           /\ \A j \in 1..(colon - 1) : u[j] \notin {"/", "?", "#", " ", ";"}
        THEN colon
        ELSE 0

\* urlparse: the netloc follows "//" and ends before the first of "/?#".
SplitNetloc(rest) ==
    IF Len(rest) >= 2 /\ rest[1] = "/" /\ rest[2] = "/"
    THEN [ netloc |-> SubSeq(rest, 3, FirstIn(Tail(Tail(rest)), {"/", "?", "#"}) + 1),
           tail   |-> SubSeq(rest, FirstIn(Tail(Tail(rest)), {"/", "?", "#"}) + 2,
                             Len(rest)) ]
    ELSE [ netloc |-> << >>, tail |-> rest ]

\* urlparse: ";params" are cut from the last segment of the path.
CutParams(path) ==
    IF \E i \in DOMAIN path : i > RFind(path, "/") /\ path[i] = ";"
    THEN SubSeq(path, 1,
                (CHOOSE i \in DOMAIN path :
                     /\ i > RFind(path, "/") /\ path[i] = ";"
                     /\ \A j \in (RFind(path, "/") + 1)..(i - 1) : path[j] # ";") - 1)
    ELSE path

\* urlparse: the path runs up to the first of "?#".
PathOf(tail) == CutParams(SubSeq(tail, 1, FirstIn(tail, {"?", "#"}) - 1))

UrlFields(scheme, located) ==
    [ scheme |-> scheme, netloc |-> located.netloc, path |-> PathOf(located.tail) ]

UrlSplitAt(u, colon) ==
    UrlFields(SubSeq(u, 1, colon - 1), SplitNetloc(SubSeq(u, colon + 1, Len(u))))

\* urllib.parse.urlparse(u): scheme, netloc and path.
UrlParse(u) == UrlSplitAt(u, SchemeEnd(u))

----------------------------------------------------------------------------
(* get_file_path                                                           *)

\* lines 105-110: index.html for an empty or directory-like path, .html for
\* a path without an extension.
WithIndexOrHtml(path) ==
    IF path = << >> \/ EndsWith(path, "/") THEN path \o << "index.html" >>
    ELSE IF SplitExt(path) = << >> THEN path \o << ".html" >>
    ELSE path

\* The slashes replaced without the leading ones being removed first.
FlatName_keeps_leading_slash(path) == Replace(path, "/", "_")

\* line 112: path.lstrip('/').replace('/', '_')
FlatName(path) == Replace(LStrip(path, "/"), "/", "_")

\* lines 103-115 on the parsed URL.
FilePathOf(parsed, output) ==
    OsPathJoin(output,
               Replace(parsed.netloc, ".", "_") \o << "_" >>
                   \o FlatName(WithIndexOrHtml(parsed.path)))

get_file_path(u, folder) == FilePathOf(UrlParse(u), folder)

----------------------------------------------------------------------------
(* The site as the HTTP client sees it.                                    *)

Base == << "https", ":", "/", "/", "example", ".", "com" >>
RobotsUrl  == Base \o << "/", "robots.txt" >>
DefaultSitemap == Base \o << "/", "sitemap.xml" >>
SM1 == Base \o << "/", "sitemap1.xml" >>
SM2 == Base \o << "/", "sitemap2.xml" >>
SM3 == Base \o << "/", "sitemap3.xml", ".gz" >>
Missing == Base \o << "/", "gone.xml" >>

UA == Base \o << "/" >>
UB == Base \o << "/", "about" >>
UC == Base \o << "/", "blog", "/" >>

\* What requests.get(u) answers: a transport error for a URL the site does
\* not know (or no URL at all), else the answer the site holds for it.
Fetch(u) ==
    IF u \in DOMAIN web THEN web[u]
    ELSE [kind |-> "error", gz |-> FALSE, entries |-> << >>]

\* str.lower() on the tokens robots.txt lines start with.
Lower(tok) ==
    CASE tok = "Sitemap" -> "sitemap"
      [] tok = "SITEMAP" -> "sitemap"
      [] tok = "Disallow" -> "disallow"
      [] OTHER -> tok

----------------------------------------------------------------------------
(* get_sitemap_urls                                                        *)

\* line.lower().startswith("sitemap:")
IsSitemapLine(line) ==
    Len(line) >= 2 /\ Lower(line[1]) = "sitemap" /\ line[2] = ":"

\* line.split(":", 1)[1].strip()
SitemapOfLine(line) == Strip(SubSeq(line, FirstIn(line, {":"}) + 1, Len(line)))

\* The loop over resp.text.splitlines().
RECURSIVE RobotsLoop(_, _)
RobotsLoop(lines, found) ==
    IF lines = << >> THEN found
    ELSE RobotsLoop(Tail(lines),
                    IF IsSitemapLine(Head(lines))
                    THEN Append(found, SitemapOfLine(Head(lines)))
                    ELSE found)

\* f"{parsed.scheme}://{parsed.netloc}"
BaseFrom(parsed) == parsed.scheme \o << ":", "/", "/" >> \o parsed.netloc
BaseOf(u) == BaseFrom(UrlParse(u))

\* lines 19-30: the sitemaps robots.txt names; none when the fetch raises or
\* the status is not 200.
FromRobots(resp) ==
    IF resp.kind = "error" THEN << >>
    ELSE IF resp.kind # "http" THEN RobotsLoop(resp.entries, << >>)
    ELSE << >>

\* The fallback with the URL taken whenever the probe answers at all.
Probed_any_status(possible, resp) ==
    IF resp.kind = "error" THEN << >> ELSE << possible >>

\* lines 36-44: /sitemap.xml is taken on a 200 answer, not on another
\* status, not when the fetch raises.
Probed(possible, resp) ==
    IF resp.kind = "error" THEN << >>
    ELSE IF resp.kind # "http" THEN << possible >>
    ELSE << >>

\* lines 33-35: the fallback runs when robots.txt named nothing.
OrDefault(found, possible) ==
    IF found = << >> THEN Probed(possible, Fetch(possible)) ELSE found

SitemapsOf(base) ==
    OrDefault(FromRobots(Fetch(base \o << "/", "robots.txt" >>)),
              base \o << "/", "sitemap.xml" >>)

get_sitemap_urls(u) == SitemapsOf(BaseOf(u))

----------------------------------------------------------------------------
(* parse_sitemap                                                           *)

\* urls.extend(more), with the child's result taking the place of urls.
Extend_overwriting(urls, more) == more

\* urls.extend(more)
Extend(urls, more) == urls \o more

\* "loc is not None and loc.text"
HasLocText(entry) == entry.hasLoc /\ entry.text # << >>

RECURSIVE parse_sitemap(_)
RECURSIVE IndexLoop(_, _)
RECURSIVE UrlsetLoop(_, _)

\* for sitemap in root.findall("{*}sitemap"): ...
IndexLoop(entries, urls) ==
    IF entries = << >> THEN urls
    ELSE IndexLoop(Tail(entries),
                   IF HasLocText(Head(entries))
                   THEN Extend(urls, parse_sitemap(Strip(Head(entries).text)))
                   ELSE urls)

\* for url in root.findall("{*}url"): ...
UrlsetLoop(entries, urls) ==
    IF entries = << >> THEN urls
    ELSE UrlsetLoop(Tail(entries),
                    IF HasLocText(Head(entries))
                    THEN Append(urls, Strip(Head(entries).text))
                    ELSE urls)

\* Every failure (transport error, status other than 200, bytes that do not
\* decompress or do not parse) happens before the first URL is collected and
\* is answered by the empty list; the recursive calls never raise.
parse_sitemap(sitemap_url) ==
    LET resp == Fetch(sitemap_url)
    IN  IF resp.kind = "error" THEN << >>
        ELSE IF resp.kind = "http" THEN << >>
        ELSE IF EndsWith(sitemap_url, ".gz") # resp.gz THEN << >>
        ELSE IF resp.kind = "badxml" THEN << >>
        ELSE IF resp.kind = "sitemapindex" THEN IndexLoop(resp.entries, << >>)
        ELSE IF resp.kind = "urlset" THEN UrlsetLoop(resp.entries, << >>)
        ELSE << >>

----------------------------------------------------------------------------
(* main: deduplication and the page cap                                    *)

\* dict.fromkeys(keys) followed by list(): a key is inserted when the
\* dictionary does not hold it yet; iteration is in insertion order.
RECURSIVE DictFromKeys(_, _)
DictFromKeys(keys, dict) ==
    IF keys = << >> THEN dict
    ELSE DictFromKeys(Tail(keys),
                      IF \E i \in DOMAIN dict : dict[i] = Head(keys)
                      THEN dict
                      ELSE Append(dict, Head(keys)))

\* A deduplication that keeps the last occurrence of each URL.
RECURSIVE Dedup_keep_last(_)
Dedup_keep_last(s) ==
    IF s = << >> THEN << >>
    ELSE IF \E i \in 2..Len(s) : s[i] = Head(s)
         THEN Dedup_keep_last(Tail(s))
         ELSE << Head(s) >> \o Dedup_keep_last(Tail(s))

\* list(dict.fromkeys(all_page_urls))
Dedup(s) == DictFromKeys(s, << >>)

\* s[:n] of Python, n of either sign.
SliceTo(s, n) ==
    IF n >= 0 THEN SubSeq(s, 1, Min(n, Len(s)))
    ELSE SubSeq(s, 1, Max(Len(s) + n, 0))

DefaultMaxPages == 100

\* int(max_pages_input) if max_pages_input else 100, 100 on ValueError.
ParseMaxPages(input) ==
    IF input.kind = "empty" THEN DefaultMaxPages
    ELSE IF input.kind = "int" THEN input.val
    ELSE DefaultMaxPages

----------------------------------------------------------------------------
(* save_page_with_inlining: the page's document and the in-page script     *)

Link(href) == [tag |-> "link", ref |-> href, body |-> << >>]
Img(src) == [tag |-> "img", ref |-> src, body |-> << >>]
DataImg == [tag |-> "img", ref |-> "data:", body |-> << "embedded" >>]

\* The <style> the script builds from what fetch(href) answered.
Style(href, o) == [tag |-> "style", ref |-> "", body |-> << href, o >>]
\* The <img> after img.src = reader.result.
Inlined(src, o) == [tag |-> "img", ref |-> "data:", body |-> << src, o >>]

\* document.querySelectorAll('link[rel="stylesheet"]')
IsStylesheetLink(e) == e.tag = "link"
\* document.querySelectorAll('img') with img.src && !img.src.startsWith('data:')
NeedsInlining(e) == e.tag = "img" /\ e.ref # "" /\ e.ref # "data:"

\* How a fetch ends: the promise resolves with a 200 answer, resolves with
\* an error status (fetch does not reject on HTTP errors, and the script
\* does not look at response.ok), or rejects.
FetchOutcomes == { "ok", "http_error", "reject" }

\* The next link after position from, 0 when there is none.
NextLink(from) ==
    IF \E i \in DOMAIN dom : i > from /\ IsStylesheetLink(dom[i])
    THEN CHOOSE i \in DOMAIN dom :
             /\ i > from /\ IsStylesheetLink(dom[i])
             /\ \A j \in (from + 1)..(i - 1) : ~IsStylesheetLink(dom[j])
    ELSE 0

\* The next image to inline after position from, 0 when there is none.
NextImage(from) ==
    IF \E i \in DOMAIN dom : i > from /\ NeedsInlining(dom[i])
    THEN CHOOSE i \in DOMAIN dom :
             /\ i > from /\ NeedsInlining(dom[i])
             /\ \A j \in (from + 1)..(i - 1) : ~NeedsInlining(dom[j])
    ELSE 0

\* A try/catch around the whole loop: a rejected fetch leaves the loop.
AfterReject_leaves_loop(phase) == IF phase = "links" THEN "images" ELSE "done"

\* The try/catch is inside the loop body (lines 132-141, 148-159): after a
\* rejected fetch the loop goes on with the next element.
AfterReject(phase) == phase

\* for (const link of links): fetch(link.href) starts, or the loop ends.
JS_NextLink ==
    /\ js = "links" /\ ~pending
    /\ IF NextLink(js_idx) = 0
       THEN js' = "images" /\ js_idx' = 0 /\ pending' = FALSE
       ELSE js' = js /\ js_idx' = NextLink(js_idx) /\ pending' = TRUE
    /\ UNCHANGED << pc, web, output_folder, url, file_path, mainVars, sessionVars,
                    sp, dom, orig_dom, outcome, content >>

\* The awaited fetch/text settles: the link is replaced by a <style>, or the
\* catch block logs and the link stays.
JS_SettleLink ==
    /\ js = "links" /\ pending
    /\ \E o \in FetchOutcomes :
        /\ outcome' = [outcome EXCEPT ![js_idx] = o]
        /\ dom' = IF o = "reject" THEN dom
                  ELSE [dom EXCEPT ![js_idx] = Style(dom[js_idx].ref, o)]
        /\ js' = IF o = "reject" THEN AfterReject(js) ELSE js
        /\ js_idx' = IF o = "reject" /\ AfterReject(js) # js THEN 0 ELSE js_idx
    /\ pending' = FALSE
    /\ UNCHANGED << pc, web, output_folder, url, file_path, mainVars, sessionVars,
                    sp, orig_dom, content >>

\* for (const img of images): fetch(img.src) starts, or the script ends.
JS_NextImage ==
    /\ js = "images" /\ ~pending
    /\ IF NextImage(js_idx) = 0
       THEN js' = "done" /\ js_idx' = 0 /\ pending' = FALSE
       ELSE js' = js /\ js_idx' = NextImage(js_idx) /\ pending' = TRUE
    /\ UNCHANGED << pc, web, output_folder, url, file_path, mainVars, sessionVars,
                    sp, dom, orig_dom, outcome, content >>

\* The awaited fetch/blob/readAsDataURL settles: img.src becomes the data
\* URI, or the catch block logs and src stays.
JS_SettleImage ==
    /\ js = "images" /\ pending
    /\ \E o \in FetchOutcomes :
        /\ outcome' = [outcome EXCEPT ![js_idx] = o]
        /\ dom' = IF o = "reject" THEN dom
                  ELSE [dom EXCEPT ![js_idx] = Inlined(dom[js_idx].ref, o)]
        /\ js' = IF o = "reject" THEN AfterReject(js) ELSE js
        /\ js_idx' = IF o = "reject" /\ AfterReject(js) # js THEN 0 ELSE js_idx
    /\ pending' = FALSE
    /\ UNCHANGED << pc, web, output_folder, url, file_path, mainVars, sessionVars,
                    sp, orig_dom, content >>

----------------------------------------------------------------------------
(* save_page_with_inlining: the Python side                                *)

\* page.evaluate returning as soon as the script has been started.
EvaluateResolved_at_once == TRUE

\* page.evaluate(inline_script): the script is an expression whose value is
\* the promise of the async function; evaluate resolves with that promise,
\* that is, when the function has run to its end.
EvaluateResolved == js = "done"

\* An exception leaves the "with sync_playwright()" block of main: its exit
\* stops Playwright, which ends the browser it launched; main is left.
Propagate ==
    /\ pc' = "crashed"
    /\ browser' = IF browser = "open" THEN "terminated" ELSE browser

\* line 123, outside the try: page = browser.new_page()
SP_NewPage ==
    /\ pc = "save_page" /\ sp = "new_page"
    /\ \/ /\ browser = "open"
          /\ open_pages' = open_pages \cup {idx}
          /\ sp' = "goto"
          /\ UNCHANGED << pc, browser >>
       \/ /\ Propagate
          /\ UNCHANGED << sp, open_pages >>
    /\ UNCHANGED << web, output_folder, url, file_path, mainVars,
                    launches, idx, attempted, files,
                    dom, orig_dom, outcome, js, js_idx, pending, content >>

\* line 125: page.goto(url, wait_until="networkidle")
SP_Goto(doms) ==
    /\ pc = "save_page" /\ sp = "goto"
    /\ \/ \E d \in doms :
            /\ dom' = d
            /\ orig_dom' = d
            /\ outcome' = [i \in DOMAIN d |-> "none"]
            /\ sp' = "evaluate"
       \/ /\ sp' = "except"
          /\ UNCHANGED << dom, orig_dom, outcome >>
    /\ UNCHANGED << pc, web, output_folder, url, file_path, mainVars, sessionVars,
                    js, js_idx, pending, content >>

\* line 165: page.evaluate(inline_script) is called; the script starts.
SP_Evaluate ==
    /\ pc = "save_page" /\ sp = "evaluate"
    /\ \/ /\ js' = "links" /\ js_idx' = 0
          /\ sp' = "evaluating"
       \/ /\ sp' = "except"
          /\ UNCHANGED << js, js_idx >>
    /\ UNCHANGED << pc, web, output_folder, url, file_path, mainVars, sessionVars,
                    dom, orig_dom, outcome, pending, content >>

\* line 165: page.evaluate returns, or raises while it waits.
SP_EvaluateReturns ==
    /\ pc = "save_page" /\ sp = "evaluating"
    /\ \/ /\ EvaluateResolved
          /\ sp' = "sleep"
       \/ sp' = "except"
    /\ UNCHANGED << pc, web, output_folder, url, file_path, mainVars, sessionVars,
                    dom, orig_dom, outcome, js, js_idx, pending, content >>

\* line 167: time.sleep(1)
SP_Sleep ==
    /\ pc = "save_page" /\ sp = "sleep"
    /\ sp' = "content"
    /\ UNCHANGED << pc, web, output_folder, url, file_path, mainVars, sessionVars,
                    dom, orig_dom, outcome, js, js_idx, pending, content >>

\* line 168: content = page.content()
SP_Content ==
    /\ pc = "save_page" /\ sp = "content"
    /\ \/ /\ content' = dom
          /\ sp' = "write"
       \/ /\ sp' = "except"
          /\ UNCHANGED content
    /\ UNCHANGED << pc, web, output_folder, url, file_path, mainVars, sessionVars,
                    dom, orig_dom, outcome, js, js_idx, pending >>

\* lines 169-172: file_path = get_file_path(...); open, write
SP_Write ==
    /\ pc = "save_page" /\ sp = "write"
    /\ file_path' = get_file_path(url, output_folder)
    /\ \/ /\ files' = Append(files, file_path')
          /\ sp' = "finally"
       \/ /\ sp' = "except"
          /\ UNCHANGED files
    /\ UNCHANGED << pc, web, output_folder, url, mainVars,
                    browser, launches, idx, attempted, open_pages,
                    dom, orig_dom, outcome, js, js_idx, pending, content >>

\* lines 173-174: except Exception as e: print(...)
SP_Except ==
    /\ pc = "save_page" /\ sp = "except"
    /\ sp' = "finally"
    /\ UNCHANGED << pc, web, output_folder, url, file_path, mainVars, sessionVars,
                    dom, orig_dom, outcome, js, js_idx, pending, content >>

\* A page.close() that runs on the success path only: after a caught
\* exception the function returns with its page open.
ClosesPage_on_success_only == file_path # << >>

\* lines 175-176: finally: page.close()
ClosesPage == TRUE

\* The finally block, then the return to main's loop (or the exception of
\* page.close() propagating).
SP_Close ==
    /\ pc = "save_page" /\ sp = "finally"
    /\ \/ /\ open_pages' = IF ClosesPage THEN open_pages \ {idx} ELSE open_pages
          /\ pc' = "loop"
          /\ idx' = idx + 1
          /\ UNCHANGED browser
       \/ /\ Propagate
          /\ UNCHANGED << open_pages, idx >>
    /\ sp' = "idle"
    /\ url' = << >> /\ file_path' = << >>
    /\ dom' = << >> /\ orig_dom' = << >> /\ outcome' = << >>
    /\ js' = "idle" /\ js_idx' = 0 /\ pending' = FALSE
    /\ content' = << >>
    /\ UNCHANGED << web, output_folder, mainVars, launches, attempted, files >>

----------------------------------------------------------------------------
(* main                                                                    *)

MaxCap == 2

\* What the user may type at the two prompts.
MainUrlInputs == { << >>, << " " >>, Base, << " " >> \o Base \o << "/", " " >> }
MaxPagesInputs ==
    { [kind |-> "empty", val |-> 0], [kind |-> "invalid", val |-> 0] }
        \cup { [kind |-> "int", val |-> n] : n \in (0 - 1)..MaxCap }

\* lines 179-198: the prompts, the output folder.
MainInput ==
    /\ pc = "start"
    /\ \E raw \in MainUrlInputs :
        /\ main_url' = Strip(raw)
        /\ IF Strip(raw) = << >>
           THEN /\ pc' = "exit_nourl"
                /\ UNCHANGED << max_pages, output_folder >>
           ELSE \E input \in MaxPagesInputs, made \in BOOLEAN :
                /\ max_pages' = ParseMaxPages(input)
                /\ output_folder' =
                       OsPathJoin(<< "downloaded_site" >>,
                                  Replace(UrlParse(Strip(raw)).netloc, ".", "_"))
                /\ pc' = IF made THEN "discover" ELSE "crashed"
    /\ UNCHANGED << web, url, file_path, sitemap_urls, sm_idx, page_urls,
                    all_page_urls, unique_page_urls, total_found,
                    sessionVars, pageVars >>

\* lines 200-204: sitemap_urls = get_sitemap_urls(main_url); return if empty.
MainDiscover ==
    /\ pc = "discover"
    /\ sitemap_urls' = get_sitemap_urls(main_url)
    /\ pc' = IF sitemap_urls' = << >> THEN "exit_nositemap" ELSE "parse"
    /\ sm_idx' = 1
    /\ UNCHANGED << web, output_folder, url, file_path, main_url, max_pages,
                    page_urls, all_page_urls, unique_page_urls, total_found,
                    sessionVars, pageVars >>

\* lines 208-212: one round of "for sitemap in sitemap_urls".
MainParse ==
    /\ pc = "parse" /\ sm_idx <= Len(sitemap_urls)
    /\ page_urls' = parse_sitemap(sitemap_urls[sm_idx])
    /\ all_page_urls' = all_page_urls \o page_urls'
    /\ sm_idx' = sm_idx + 1
    /\ UNCHANGED << pc, web, output_folder, url, file_path, main_url, max_pages,
                    sitemap_urls, unique_page_urls, total_found,
                    sessionVars, pageVars >>

\* lines 214-217: unique_page_urls = list(dict.fromkeys(all_page_urls))
MainDedup ==
    /\ pc = "parse" /\ sm_idx > Len(sitemap_urls)
    /\ unique_page_urls' = Dedup(all_page_urls)
    /\ total_found' = Len(unique_page_urls')
    /\ pc' = "limit"
    /\ UNCHANGED << web, output_folder, url, file_path, main_url, max_pages,
                    sitemap_urls, sm_idx, page_urls, all_page_urls,
                    sessionVars, pageVars >>

\* lines 219-222: the cap.
MainLimit ==
    /\ pc = "limit"
    /\ unique_page_urls' = IF total_found > max_pages
                           THEN SliceTo(unique_page_urls, max_pages)
                           ELSE unique_page_urls
    /\ pc' = "launch"
    /\ UNCHANGED << web, output_folder, url, file_path, main_url, max_pages,
                    sitemap_urls, sm_idx, page_urls, all_page_urls, total_found,
                    sessionVars, pageVars >>

\* lines 225-226: with sync_playwright() as p: browser = p.chromium.launch()
MainLaunch ==
    /\ pc = "launch"
    /\ \/ /\ browser' = "open"
          /\ launches' = launches + 1
          /\ idx' = 1
          /\ pc' = "loop"
       \/ /\ pc' = "crashed"
          /\ UNCHANGED << browser, launches, idx >>
    /\ UNCHANGED << web, output_folder, url, file_path, mainVars,
                    attempted, open_pages, files, pageVars >>

\* line 227-228: the next url of the list is handed to save_page_with_inlining.
MainLoop ==
    /\ pc = "loop" /\ idx <= Len(unique_page_urls)
    /\ url' = unique_page_urls[idx]
    /\ attempted' = Append(attempted, unique_page_urls[idx])
    /\ sp' = "new_page"
    /\ pc' = "save_page"
    /\ UNCHANGED << web, output_folder, file_path, mainVars,
                    browser, launches, idx, open_pages, files,
                    dom, orig_dom, outcome, js, js_idx, pending, content >>

\* A browser.close() (and the end of the run) reached after the first page.
LoopIsOver_after_any_page == idx > 1 \/ idx > Len(unique_page_urls)

\* line 229 is reached when the for loop has run through the list.
LoopIsOver == idx > Len(unique_page_urls)

\* lines 229-231: browser.close(), the end of the with block, the last print.
MainCloseBrowser ==
    /\ pc = "loop" /\ LoopIsOver /\ browser = "open"
    /\ \/ /\ browser' = "closed"
          /\ pc' = "done"
       \/ Propagate
    /\ UNCHANGED << web, output_folder, url, file_path, mainVars,
                    launches, idx, attempted, open_pages, files, pageVars >>

----------------------------------------------------------------------------
(* Spec: a whole run of main over a bounded family of sites.               *)

Doc(kind, gz, entries) == [kind |-> kind, gz |-> gz, entries |-> entries]
Loc(text) == [hasLoc |-> TRUE, text |-> text]
NoLoc == [hasLoc |-> FALSE, text |-> << >>]
Failed(kind) == Doc(kind, FALSE, << >>)

\* robots.txt answers that name no sitemap: a transport error, a 404, and
\* a file whose only "Sitemap:" line is indented.
SilentRobots ==
    { Failed("error"), Failed("http"),
      Doc("robots", FALSE, << << "User-agent", ":", " ", "*" >>,
                              << " ", "Sitemap", ":", " " >> \o SM1 >>) }

\* robots.txt files that name sitemaps.
NamingRobots ==
    { Doc("robots", FALSE, << << "Sitemap", ":", " " >> \o SM1,
                              << "Sitemap", ":", " " >> \o SM2 >>),
      Doc("robots", FALSE, << << "SITEMAP", ":" >> \o SM2 \o << " " >>,
                              << "Disallow", ":", " ", "/", "private" >>,
                              << "sitemap", ":", " ", " " >> \o SM1 >>) }

DefaultDocs ==
    { Failed("error"), Failed("http"),
      Doc("urlset", FALSE, << Loc(UA), Loc(UB) >>),
      Doc("sitemapindex", FALSE, << Loc(SM1), Loc(SM2) >>) }

SM1Docs ==
    { Failed("badxml"),
      Doc("urlset", FALSE, << Loc(UA), Loc(UB) >>),
      Doc("sitemapindex", FALSE, << Loc(SM2), Loc(SM3) >>),
      Doc("sitemapindex", FALSE,
          << Loc(SM3), NoLoc, Loc(Missing), Loc(<< >>), Loc(<< " " >>),
             Loc(<< " " >> \o SM2 \o << " " >>) >>) }

SM2Docs ==
    { Failed("http"), Failed("html"),
      Doc("urlset", FALSE, << Loc(UA), Loc(UC), Loc(UB) >>),
      Doc("urlset", FALSE,
          << NoLoc, Loc(<< " " >> \o UC \o << " " >>), Loc(<< >>), Loc(UC),
             Loc(<< " " >>) >>),
      Doc("sitemapindex", FALSE, << Loc(SM3), Loc(SM3) >>) }

SM3Docs ==
    { Failed("error"),
      Doc("urlset", TRUE, << Loc(UA), Loc(UB) >>),
      Doc("urlset", FALSE, << Loc(UA), Loc(UB) >>) }

Site(r, d, s1, s2, s3) ==
    (RobotsUrl :> r) @@ (DefaultSitemap :> d) @@ (SM1 :> s1) @@ (SM2 :> s2) @@ (SM3 :> s3)

\* The sitemap references form no cycle: /sitemap.xml may name SM1 and SM2,
\* SM1 may name SM2 and SM3, SM2 may name SM3, SM3 names nothing.
Sites ==
    { Site(r, d, Doc("sitemapindex", FALSE, << Loc(SM2), Loc(SM3) >>),
           Doc("urlset", FALSE, << Loc(UA), Loc(UC), Loc(UB) >>),
           Doc("urlset", TRUE, << Loc(UA), Loc(UB) >>)) :
          r \in SilentRobots, d \in DefaultDocs }
    \cup
    { Site(r, Failed("error"), s1, s2, s3) :
          r \in NamingRobots, s1 \in SM1Docs, s2 \in SM2Docs, s3 \in SM3Docs }

\* The documents navigation may leave in a page of the run.
MainDoms == { << Link("a.css"), Img("x.png") >> }

PageIdle ==
    /\ sp = "idle"
    /\ dom = << >> /\ orig_dom = << >> /\ outcome = << >>
    /\ js = "idle" /\ js_idx = 0 /\ pending = FALSE
    /\ content = << >>

Init ==
    /\ pc = "start"
    /\ web \in Sites
    /\ main_url = << >> /\ max_pages = 0 /\ output_folder = << >>
    /\ sitemap_urls = << >> /\ sm_idx = 0 /\ page_urls = << >>
    /\ all_page_urls = << >> /\ unique_page_urls = << >> /\ total_found = 0
    /\ browser = "none" /\ launches = 0 /\ idx = 0
    /\ attempted = << >> /\ open_pages = {} /\ files = << >>
    /\ url = << >> /\ file_path = << >>
    /\ PageIdle

Next ==
    \/ MainInput
    \/ MainDiscover
    \/ MainParse
    \/ MainDedup
    \/ MainLimit
    \/ MainLaunch
    \/ MainLoop
    \/ MainCloseBrowser
    \/ SP_NewPage
    \/ SP_Goto(MainDoms)
    \/ SP_Evaluate
    \/ SP_EvaluateReturns
    \/ SP_Sleep
    \/ SP_Content
    \/ SP_Write
    \/ SP_Except
    \/ SP_Close
    \/ JS_NextLink
    \/ JS_SettleLink
    \/ JS_NextImage
    \/ JS_SettleImage

Spec == Init /\ [][Next]_vars

----------------------------------------------------------------------------
(* SpecPath: get_file_path applied to every URL of a bounded family.       *)

MaxPathLen == 4

Scheme == << "https", ":", "/", "/" >>
Hosts == { << "example", ".", "com" >>, << "localhost" >>,
           << "www", ".", "example", ".", "com" >> }
Ports == { << >>, << ":", "8080" >> }
PathAlphabet == { "/", "a", "." }
Paths == { << >> } \cup { << "/" >> \o s : s \in SeqsUpTo(PathAlphabet, MaxPathLen - 1) }
UrlTails == { << >>, << "?", "q" >>, << "#", "f" >>, << ";", "p" >> }
Roots == { << "downloaded_site", "/", "example_com" >>, << "downloaded_site", "/" >> }

AssembleUrl(host, port, path, tail) == Scheme \o host \o port \o path \o tail

PathUrls == { AssembleUrl(h, p, q, t) :
                  h \in Hosts, p \in Ports, q \in Paths, t \in UrlTails }

InitPath ==
    /\ pc = "get_file_path"
    /\ url \in PathUrls
    /\ output_folder \in Roots
    /\ file_path = << >>
    /\ web = << >>
    /\ main_url = << >> /\ max_pages = 0
    /\ sitemap_urls = << >> /\ sm_idx = 0 /\ page_urls = << >>
    /\ all_page_urls = << >> /\ unique_page_urls = << >> /\ total_found = 0
    /\ browser = "none" /\ launches = 0 /\ idx = 0
    /\ attempted = << >> /\ open_pages = {} /\ files = << >>
    /\ PageIdle

PathCall ==
    /\ pc = "get_file_path"
    /\ file_path' = get_file_path(url, output_folder)
    /\ pc' = "mapped"
    /\ UNCHANGED << web, url, output_folder, mainVars, sessionVars, pageVars >>

NextPath == PathCall

SpecPath == InitPath /\ [][NextPath]_vars

----------------------------------------------------------------------------
(* SpecCapture: one call of save_page_with_inlining, over every document   *)
(* of up to MaxResources stylesheet links and images.                      *)

MaxResources == 3

Elements == { Link("a.css"), Link("b.css"), Img("x.png"), Img(""), DataImg }
CaptureDoms == SeqsUpTo(Elements, MaxResources)

InitCapture ==
    /\ pc = "save_page"
    /\ sp = "new_page"
    /\ web = << >>
    /\ main_url = Base /\ max_pages = DefaultMaxPages
    /\ output_folder = << "downloaded_site", "/", "example_com" >>
    /\ sitemap_urls = << >> /\ sm_idx = 0 /\ page_urls = << >>
    /\ all_page_urls = << UB >> /\ unique_page_urls = << UB >> /\ total_found = 1
    /\ browser = "open" /\ launches = 1 /\ idx = 1
    /\ attempted = << UB >> /\ open_pages = {} /\ files = << >>
    /\ url = UB /\ file_path = << >>
    /\ dom = << >> /\ orig_dom = << >> /\ outcome = << >>
    /\ js = "idle" /\ js_idx = 0 /\ pending = FALSE
    /\ content = << >>

NextCapture ==
    \/ SP_NewPage
    \/ SP_Goto(CaptureDoms)
    \/ SP_Evaluate
    \/ SP_EvaluateReturns
    \/ SP_Sleep
    \/ SP_Content
    \/ SP_Write
    \/ SP_Except
    \/ SP_Close
    \/ JS_NextLink
    \/ JS_SettleLink
    \/ JS_NextImage
    \/ JS_SettleImage

SpecCapture == InitCapture /\ [][NextCapture]_vars

----------------------------------------------------------------------------
(* Properties of get_file_path (checked under SpecPath).                   *)

\* A path has an extension when its last segment holds a "." that some
\* character other than "." precedes within that segment.
HasExtension(q) ==
    \E i, j \in DOMAIN q :
        /\ i < j
        /\ q[j] = "."
        /\ q[i] \notin {".", "/"}
        /\ \A k \in i..Len(q) : q[k] # "/"

\* Step (i) of the rule: index.html for directory-like paths, .html for
\* paths without an extension.
WithSuffix(q) ==
    IF q = << >> \/ q[Len(q)] = "/" THEN q \o << "index.html" >>
    ELSE IF ~HasExtension(q) THEN q \o << ".html" >>
    ELSE q

\* The number of "/" characters q starts with.
LeadingSlashes(q) ==
    CHOOSE n \in 0..Len(q) :
        /\ \A j \in 1..n : q[j] = "/"
        /\ n = Len(q) \/ q[n + 1] # "/"

\* q without its first n characters, every "/" left written as "_".
Flattened(q, n) ==
    [i \in 1..(Len(q) - n) |-> IF q[i + n] = "/" THEN "_" ELSE q[i + n]]

Underscored(h) == [i \in 1..Len(h) |-> IF h[i] = "." THEN "_" ELSE h[i]]

Under(root, name) ==
    IF root[Len(root)] = "/" THEN root \o name ELSE root \o << "/" >> \o name

\* The network location of scheme://host[:port]path[tail]: what stands
\* between "//" and the first "/", "?" or "#".  That is host[:port], and
\* also a ";params" tail when the path is empty.
NetworkLocation(h, p, q, t) ==
    h \o p \o (IF q = << >> /\ t # << >> /\ t[1] = ";" THEN t ELSE << >>)

----------------------------------------------------------------------------
(* Properties of the run (checked under Spec).                             *)

Range(s) == { s[i] : i \in DOMAIN s }

\* The position at which x first occurs in s.
FirstOccurrence(s, x) ==
    CHOOSE i \in DOMAIN s : s[i] = x /\ \A j \in 1..(i - 1) : s[j] # x

\* C1: the list main goes on to process after deduplication holds no two
\* equal URLs, holds exactly the URLs of the concatenated parse results,
\* and orders them by their first occurrence in that concatenation.
C1_Deduplicated ==
    pc = "limit" =>
        /\ \A i, j \in DOMAIN unique_page_urls :
               i # j => unique_page_urls[i] # unique_page_urls[j]
        /\ Range(unique_page_urls) = Range(all_page_urls)
        /\ \A i, j \in DOMAIN unique_page_urls :
               i < j => FirstOccurrence(all_page_urls, unique_page_urls[i])
                            < FirstOccurrence(all_page_urls, unique_page_urls[j])

\* The example of the claim: [A, B, A, C, B] has become [A, B, C].
C1_Witness ==
    /\ pc = "limit"
    /\ all_page_urls = << UA, UB, UA, UC, UB >>
    /\ unique_page_urls = << UA, UB, UC >>

\* C2 as stated: with a cap N and M unique URLs, a run that completes has
\* handed save_page_with_inlining exactly the first min(N, M) entries of the
\* deduplicated list, in order.
C2_AsStated ==
    pc = "done" =>
        attempted = SubSeq(Dedup(all_page_urls), 1,
                           Min(max_pages, Len(Dedup(all_page_urls))))

\* The robots.txt fetch failed or named no sitemap, and the /sitemap.xml
\* probe failed.
NothingDiscoverable ==
    /\ web[RobotsUrl] \in SilentRobots
    /\ web[DefaultSitemap].kind \in { "error", "http" }

\* C3: when robots.txt fails or names no sitemap and the /sitemap.xml probe
\* fails, get_sitemap_urls returns the empty list without raising and main
\* stops there: nothing parsed, no session launched, no page captured.
C3_NoSitemap ==
    (sm_idx >= 1 /\ NothingDiscoverable) =>
        /\ sitemap_urls = << >>
        /\ pc = "exit_nositemap"
        /\ page_urls = << >> /\ all_page_urls = << >>
        /\ browser = "none" /\ launches = 0
        /\ attempted = << >> /\ open_pages = {} /\ files = << >>

\* Both fetches ended in transport errors and main has stopped.
C3_Witness ==
    /\ pc = "exit_nositemap"
    /\ web[RobotsUrl].kind = "error"
    /\ web[DefaultSitemap].kind = "error"
    /\ sm_idx = 1

\* A sitemap document that was fetched, decompressed and parsed.
Readable(u) ==
    /\ Fetch(u).kind \in { "sitemapindex", "urlset" }
    /\ EndsWith(u, ".gz") <=> Fetch(u).gz

\* p, a sequence of entry positions, leads from the document at u through
\* sitemap-index entries with a non-empty loc to a urlset entry with a
\* non-empty loc.
RECURSIVE LeadsToUrl(_, _)
LeadsToUrl(u, p) ==
    /\ p # << >>
    /\ Readable(u)
    /\ Head(p) \in DOMAIN Fetch(u).entries
    /\ Fetch(u).entries[Head(p)].hasLoc
    /\ Len(Fetch(u).entries[Head(p)].text) > 0
    /\ IF Len(p) = 1
       THEN Fetch(u).kind = "urlset"
       ELSE /\ Fetch(u).kind = "sitemapindex"
            /\ LeadsToUrl(Strip(Fetch(u).entries[Head(p)].text), Tail(p))

\* The loc value (trimmed) at the end of p.
RECURSIVE UrlAt(_, _)
UrlAt(u, p) ==
    IF Len(p) = 1 THEN Strip(Fetch(u).entries[Head(p)].text)
    ELSE UrlAt(Strip(Fetch(u).entries[Head(p)].text), Tail(p))

\* Document order of two places in the tree.
Before(p, q) ==
    \E k \in 1..Min(Len(p), Len(q)) :
        p[k] < q[k] /\ \A j \in 1..(k - 1) : p[j] = q[j]

\* The longest entry list the site serves, and the longest reference chain.
WidestDoc == CHOOSE n \in 0..20 :
                 /\ \A u \in DOMAIN web : Len(web[u].entries) <= n
                 /\ \E u \in DOMAIN web : Len(web[u].entries) = n
PlacesOf(u) ==
    { p \in UNION { [1..k -> 1..WidestDoc] : k \in 1..(Cardinality(DOMAIN web) - 1) } :
          LeadsToUrl(u, p) }

C7_AsStated ==
    (pc \in { "done", "crashed" } /\ launches >= 1) =>
        attempted = unique_page_urls

C10_OnePageAtATime ==
    /\ Cardinality(open_pages) <= 1
    /\ open_pages \subseteq {idx}
    /\ pc \in { "loop", "done" } => open_pages = {}
    /\ sp = "new_page" => open_pages = {}
    /\ Len(files) <= Len(attempted)
    /\ sp \in { "new_page", "goto", "evaluate", "evaluating", "sleep", "content", "write" }
           => Len(files) < Len(attempted)

\* Two calls have returned, one with its file written and one after a
\* failure, and no page is open.
C10_Witness ==
    /\ pc = "loop" /\ idx = 3
    /\ Len(files) = 1
    /\ open_pages = {}

----------------------------------------------------------------------------
(* Properties of one capture (checked under SpecCapture).                  *)

====
